---- MODULE Spec2Model ----
(***************************************************************************)
(* Model of the text-to-BPMN converter (app/converter.py) and of its      *)
(* /convert request handler (app/routes.py).                               *)
(*                                                                         *)
(* A text is a sequence of symbols.  A symbol is one lexeme of the input:  *)
(* a one-letter plain word ("x", "y"), a whitespace or punctuation         *)
(* character, or one of the keywords the regular expressions of the code   *)
(* look for (each keyword is atomic: no pattern matches part of it).       *)
(* Regular expressions are lists of items and are matched by a             *)
(* backtracking matcher with the priorities of Python's re module          *)
(* (leftmost start, greedy longest-first, lazy shortest-first,             *)
(* alternatives in order).                                                 *)
(***************************************************************************)
EXTENDS Integers, Sequences, FiniteSets, TLC

(***************************************************************************)
(* Symbols                                                                 *)
(***************************************************************************)
SP == " "
NL == "\n"
DOT == "."
COMMA == ","
FACOMMA == "fa,"
SEMI == ";"
FASEMI == "fa;"
COLON == ":"
DASH == "-"
FAQMARK == "fa?"
DIVIDER == "--"
ZWNJ == "zwnj"

\* a run of 25 spaces
LONGSP == "sp25"

\* \s of the re module, and what str.strip() / str.split() remove
Whitespace == {SP, NL, LONGSP}

\* one-letter words without any meaning to the code
PlainWords == {"x", "y"}

\* plain words of 11, 12, 13, 24 and 25 letters
LongWords == {"w11", "w12", "w13", "w24", "w25"}
LongWordLen(s) ==
  CASE s = "w11" -> 11 [] s = "w12" -> 12 [] s = "w13" -> 13 [] s = "w24" -> 24 [] s = "w25" -> 25

\* keywords: lexemes the code's patterns name
Keywords ==
  { "then", "and", "afterwards", "after", "that", "finally", "at", "last",
    "ultimately", "subsequently", "next", "includes", "consists", "of",
    "comprises",
    "sepas", "badan", "bad", "az", "an", "dar", "nahayat", "va",
    "shamel", "moteshakel", "kol", "farayand",
    "agar", "amma", "vali", "bashad", "ast", "bud", "surati", "ke",
    "karshenas", "arshad", "poshtibani", "setad", "barresi", "shekayat",
    "avvalie", "karmand", "karbar",
    "be", "sharh", "zeyl", "zir", "mibashad" }

Punctuation == {DOT, COMMA, FACOMMA, SEMI, FASEMI, COLON, DASH, FAQMARK, DIVIDER, ZWNJ}

AllSyms == Whitespace \cup PlainWords \cup LongWords \cup Keywords \cup Punctuation

\* \w of the re module: the symbols made of letters
IsWord(s) == s \in PlainWords \cup LongWords \cup Keywords

\* len(s) of the lexeme a symbol stands for
SymLen(s) ==
  CASE s \in LongWords -> LongWordLen(s)
    [] s = LONGSP -> 25
    [] s \in {"va"} -> 1
    [] s \in {"an", "at", "az", "be", "dar", "ke", "kol", "of"} -> 2
    [] s \in {"agar", "amma", "and", "ast", "bad", "bud", "sepas", "sharh", "vali", "zeyl", "zir"} -> 3
    [] s \in {"arshad", "bashad", "last", "next", "setad", "shamel", "that", "then"} -> 4
    [] s \in {"after", "avvalie", "badan", "barresi", "karbar", "moteshakel", "nahayat", "shekayat", "surati"} -> 5
    [] s \in {"farayand", "karmand", "mibashad"} -> 6
    [] s \in {"finally", "karshenas"} -> 7
    [] s \in {"consists", "includes", "poshtibani"} -> 8
    [] s \in {"comprises"} -> 9
    [] s \in {"afterwards", "ultimately"} -> 10
    [] s \in {"subsequently"} -> 12
    [] OTHER -> 1


(***************************************************************************)
(* Regular expressions                                                     *)
(***************************************************************************)
CapNames == {"cond", "yes", "no_clause", "no", "no_cond", "g1", "g2"}
NoCaps == [n \in CapNames |-> <<0, 0>>]

\* one symbol of the set S
Sym(S) == [op |-> "sym", set |-> S, min |-> 0, greedy |-> TRUE, cap |-> "", alts |-> <<>>]
Lit(s) == Sym({s})
\* S{min,} greedy or lazy, captured as group cap when cap # ""
Rep(S, min, greedy, cap) ==
  [op |-> "rep", set |-> S, min |-> min, greedy |-> greedy, cap |-> cap, alts |-> <<>>]
\* (?:a|b|...), each alternative a list of items
Alt(alts) == [op |-> "alt", set |-> {}, min |-> 0, greedy |-> TRUE, cap |-> "", alts |-> alts]
\* (?:a)?
Opt(a) == Alt(<< a, <<>> >>)
\* $
Eos == [op |-> "eos", set |-> {}, min |-> 0, greedy |-> TRUE, cap |-> "", alts |-> <<>>]
\* \b
Wb == [op |-> "wb", set |-> {}, min |-> 0, greedy |-> TRUE, cap |-> "", alts |-> <<>>]
\* (?=a|b|...)
Look(alts) == [op |-> "look", set |-> {}, min |-> 0, greedy |-> TRUE, cap |-> "", alts |-> alts]

\* \s+ , \s* , . (no re.DOTALL) , a phrase of words separated by one space
Ws1 == Rep(Whitespace, 1, TRUE, "")
Ws0 == Rep(Whitespace, 0, TRUE, "")
AnyButNl == AllSyms \ {NL}

Fail == [ok |-> FALSE, start |-> 0, end |-> 0, caps |-> NoCaps]

\* the length of the longest run of symbols of S in t from pos
RunLen(S, t, pos) ==
  LET stops == {i \in pos..Len(t) : t[i] \notin S}
  IN IF pos > Len(t) THEN 0
     ELSE IF stops = {} THEN Len(t) + 1 - pos
     ELSE (CHOOSE i \in stops : \A j \in stops : i <= j) - pos

AtWordBoundary(t, pos) ==
  LET left == pos > 1 /\ IsWord(t[pos - 1])
      right == pos <= Len(t) /\ IsWord(t[pos])
  IN left # right

\* a greedy repetition without a group, followed by one symbol that is not of its
\* set, can only take the whole run
OnlyFullRun(it, rest) ==
  /\ it.greedy
  /\ it.cap = ""
  /\ Len(rest) > 0
  /\ Head(rest).op = "sym"
  /\ Head(rest).set \cap it.set = {}

\* the rest of a pattern, given by its matches ms: the first way it matches from
\* each position where it does
Cont(ms) ==
  [op |-> "cont", set |-> {m.start : m \in ms}, min |-> 0, greedy |-> TRUE, cap |-> "",
   alts |-> ms]

\* the items up to the first group of a pattern are matched in one go: the place of
\* the first group that is not the last item, 0 when there is none
CutAt(items) ==
  LET groups == {i \in 1..(Len(items) - 1) : items[i].cap # ""}
  IN IF groups = {} THEN 0 ELSE CHOOSE i \in groups : \A j \in groups : i <= j

\* one item that takes a fixed number of symbols matches t at pos
StepOk(it, t, pos) ==
  CASE it.op = "sym" -> pos <= Len(t) /\ t[pos] \in it.set
    [] it.op = "eos" -> pos = Len(t) + 1
    [] it.op = "wb" -> AtWordBoundary(t, pos)
    [] OTHER -> FALSE

\* a repetition that can only take the whole run, and the symbol after it, match
FullRunOk(items, t, pos) ==
  LET it == Head(items)
      maxn == RunLen(it.set, t, pos)
  IN /\ it.op = "rep"
     /\ OnlyFullRun(it, Tail(items))
     /\ maxn >= it.min
     /\ pos + maxn <= Len(t)
     /\ t[pos + maxn] \in items[2].set

\* the result of the first successful trial of tries, a set of <<rank, result>>
\* pairs, the trials ordered by rank
FirstOk(tries) ==
  LET good == {p \in tries : p[2].ok}
  IN IF good = {} THEN Fail
     ELSE (CHOOSE p \in good : \A q \in good : p[1] <= q[1])[2]

RECURSIVE MatchAt(_, _, _, _)
RECURSIVE TryRep(_, _, _, _, _, _)
RECURSIVE TryAlt(_, _, _, _, _)

\* the first way (in the matcher's order of trial) items match t from pos
MatchAt(items, t, pos, caps) ==
  CASE Len(items) = 0 -> [ok |-> TRUE, start |-> 0, end |-> pos, caps |-> caps]
    [] StepOk(Head(items), t, pos) ->
         MatchAt(Tail(items), t, IF Head(items).op = "sym" THEN pos + 1 ELSE pos, caps)
    [] FullRunOk(items, t, pos) ->
         \* a shorter run leaves a symbol of the set before the next item
         MatchAt(Tail(Tail(items)), t, pos + RunLen(Head(items).set, t, pos) + 1, caps)
    [] Head(items).op = "rep" /\ ~OnlyFullRun(Head(items), Tail(items)) ->
         FirstOk(TryRep(Head(items), Tail(items), t, pos, caps,
                        RunLen(Head(items).set, t, pos)))
    [] Head(items).op = "alt" -> FirstOk(TryAlt(Head(items).alts, Tail(items), t, pos, caps))
    [] Head(items).op = "look" /\ FirstOk(TryAlt(Head(items).alts, <<>>, t, pos, caps)).ok ->
         MatchAt(Tail(items), t, pos, caps)
    [] Head(items).op = "cont" /\ pos \in Head(items).set ->
         LET m == CHOOSE m \in Head(items).alts : m.start = pos
         IN \* the groups set so far and the groups the rest of the pattern sets
            [ok |-> TRUE, start |-> 0, end |-> m.end,
             caps |-> [n \in CapNames |-> IF m.caps[n] = <<0, 0>> THEN caps[n] ELSE m.caps[n]]]
    [] OTHER -> Fail

\* the repetition counts it.min..maxn are tried longest first (greedy) or shortest
\* first (lazy)
TryRep(it, rest, t, pos, caps, maxn) ==
  { << IF it.greedy THEN maxn - n ELSE n,
       MatchAt(rest, t, pos + n,
               IF it.cap = "" THEN caps ELSE [caps EXCEPT ![it.cap] = <<pos, pos + n>>]) >> :
    n \in it.min..maxn }

\* the alternatives are tried in their order
TryAlt(alts, rest, t, pos, caps) ==
  { <<k, MatchAt(alts[k] \o rest, t, pos, caps)>> : k \in 1..Len(alts) }

\* the positions from..Len(t)+1 where a match of items can start: when the first
\* item after the leading \b takes a symbol, the positions that hold such a symbol
Starts(items, t, from) ==
  LET taking == {i \in 1..Len(items) : items[i].op # "wb"}
      first == CHOOSE i \in taking : \A j \in taking : i <= j
  IN IF taking # {} /\ (items[first].op = "sym" \/ (items[first].op = "rep" /\ items[first].min > 0))
     THEN {p \in from..Len(t) : t[p] \in items[first].set}
     ELSE from..(Len(t) + 1)

\* the matches of a segment in t that start at one of the positions from..Len(t)+1
SegMatches(items, t, from) ==
  { m \in { [MatchAt(items, t, p, NoCaps) EXCEPT !.start = p] : p \in Starts(items, t, from) } :
      m.ok }

\* the matches of items in t that start at one of the positions from..Len(t)+1; a
\* pattern with groups is matched segment by segment, the last one first: where the
\* rest of the pattern matches is known before the segment in front of it is tried
RECURSIVE MatchesAt(_, _, _)
MatchesAt(items, t, from) ==
  IF CutAt(items) = 0 THEN SegMatches(items, t, from)
  ELSE LET after == MatchesAt(SubSeq(items, CutAt(items) + 1, Len(items)), t, 1)
       IN IF after = {} THEN {}
          ELSE SegMatches(SubSeq(items, 1, CutAt(items)) \o <<Cont(after)>>, t, from)

\* the leftmost of the matches found
Leftmost(found) ==
  IF found = {} THEN Fail
  ELSE CHOOSE m \in found : \A q \in found : m.start <= q.start

\* re.search from the position from on: the leftmost match
SearchFrom(items, t, from) == Leftmost(MatchesAt(items, t, from))

ReSearch(items, t) == SearchFrom(items, t, 1)

\* m.group(name): captured positions are <<first, one past last>>
Group(t, m, name) == SubSeq(t, m.caps[name][1], m.caps[name][2] - 1)

\* the position from which the search goes on after the match m
After(m) == IF m.end > m.start THEN m.end ELSE m.end + 1

\* the matches a scan from left to right takes of the matches found: a match is
\* taken when no match taken before it reaches over its start
Taken(found) ==
  IF \A m, q \in found : m.start < q.start => After(m) <= q.start
  THEN found
  ELSE CHOOSE T \in SUBSET found :
         \A m \in found : m \in T <=> \A q \in T : q.start < m.start => After(q) <= m.start

\* the matches taken, from left to right
InOrder(taken) ==
  [i \in 1..Cardinality(taken) |->
     CHOOSE m \in taken : Cardinality({q \in taken : q.start < m.start}) = i - 1]

\* re.findall(items, t): the successive non-overlapping matches
ReFindAll(items, t) == InOrder(Taken(MatchesAt(items, t, 1)))

\* the text between the matches ms
Between(ms, t) ==
  [i \in 1..(Len(ms) + 1) |->
     SubSeq(t, IF i = 1 THEN 1 ELSE ms[i - 1].end,
               IF i > Len(ms) THEN Len(t) ELSE ms[i].start - 1)]

\* re.split(items, t) for patterns that match no empty string
ReSplit(items, t) == Between(ReFindAll(items, t), t)

\* the first symbol of a match taken becomes repl, its other symbols go
Replaced(taken, repl, t) ==
  SelectSeq([i \in 1..Len(t) |->
               IF \E m \in taken : m.start = i THEN repl
               ELSE IF \E m \in taken : m.start < i /\ i < m.end THEN ""
               ELSE t[i]],
            LAMBDA c : c # "")

\* re.sub(items, repl, t) for patterns that match no empty string and a repl of
\* one symbol
ReSub(items, repl, t) == Replaced(Taken(MatchesAt(items, t, 1)), repl[1], t)

\* the concatenation of parts[lo..hi] with sep between two of them
RECURSIVE JoinRange(_, _, _, _)
JoinRange(parts, sep, lo, hi) ==
  IF lo = hi THEN parts[lo]
  ELSE LET mid == (lo + hi) \div 2
       IN JoinRange(parts, sep, lo, mid) \o sep \o JoinRange(parts, sep, mid + 1, hi)

\* sep.join(parts)
Join(parts, sep) ==
  IF Len(parts) = 0 THEN <<>> ELSE JoinRange(parts, sep, 1, Len(parts))

(***************************************************************************)
(* str methods                                                             *)
(***************************************************************************)
\* s.strip(chars)
Strip(t, chars) ==
  LET keep == {i \in 1..Len(t) : t[i] \notin chars}
  IN IF keep = {} THEN <<>>
     ELSE SubSeq(t, CHOOSE i \in keep : \A j \in keep : i <= j,
                    CHOOSE i \in keep : \A j \in keep : i >= j)

\* needle in t
Contains(t, needle) ==
  \E i \in 1..(Len(t) - Len(needle) + 1) : SubSeq(t, i, i + Len(needle) - 1) = needle

\* a variant that keeps every run of whitespace as it is
CollapseWsKept(t) == t

\* re.sub(r"\s+", " ", t)
CollapseWs(t) == ReSub(<<Ws1>>, <<SP>>, t)

\* t.replace(a, b) for one-symbol a and b
ReplaceSym(t, a, b) == [i \in 1..Len(t) |-> IF t[i] = a THEN b ELSE t[i]]

\* t.replace(a, "") for one-symbol a
RemoveSym(t, a) == SelectSeq(t, LAMBDA c : c # a)

\* t.replace(phrase, "") for a non-empty phrase
RECURSIVE RemovePhrase(_, _)
RemovePhrase(t, phrase) ==
  LET at == {i \in 1..(Len(t) - Len(phrase) + 1) : SubSeq(t, i, i + Len(phrase) - 1) = phrase}
      first == CHOOSE i \in at : \A j \in at : i <= j
  IN IF at = {} THEN t
     ELSE SubSeq(t, 1, first - 1) \o RemovePhrase(SubSeq(t, first + Len(phrase), Len(t)), phrase)

(***************************************************************************)
(* _extract_steps                                                          *)
(***************************************************************************)
\* a phrase: its words separated by one literal space
Phrase2(a, b) == <<Lit(a), Lit(SP), Lit(b)>>
Phrase3(a, b, c) == <<Lit(a), Lit(SP), Lit(b), Lit(SP), Lit(c)>>

SummaryPattern ==
  << Lit("dar"), Ws1, Lit("kol"), Ws0, Opt(<<Lit(FACOMMA)>>), Ws0,
     Lit("farayand"), Ws1, Lit("shamel"), Rep(AllSyms, 0, TRUE, "") >>

connectors ==
  << <<Wb, Lit("then"), Wb>>,
     <<Wb>> \o Phrase2("and", "then") \o <<Wb>>,
     <<Wb, Lit("afterwards"), Wb>>,
     <<Wb>> \o Phrase2("after", "that") \o <<Wb>>,
     <<Wb, Lit("finally"), Wb>>,
     <<Wb>> \o Phrase2("at", "last") \o <<Wb>>,
     <<Wb, Lit("ultimately"), Wb>>,
     <<Wb, Lit("subsequently"), Wb>>,
     <<Wb, Lit("next"), Wb>>,
     <<Wb, Lit("and"), Wb>>,
     <<Lit("sepas")>>,
     <<Lit("badan")>>,
     Phrase3("bad", "az", "an"),
     Phrase2("dar", "nahayat"),
     Phrase2("va", "sepas"),
     Phrase3("va", "dar", "nahayat") >>

HeadlinePattern ==
  << Wb,
     Alt(<< <<Lit("includes")>>, Phrase2("consists", "of"), <<Lit("comprises")>>,
            <<Lit("shamel")>>, Phrase2("moteshakel", "az") >>),
     Wb >>

comma_split_pattern ==
  << Lit(COMMA), Rep({SP}, 0, TRUE, ""),
     Look(<< << Alt(<< <<Lit("and")>>, <<Lit("then")>>, <<Lit("after")>>,
                       <<Lit("finally")>>, Phrase2("dar", "nahayat"),
                       <<Lit("sepas")>>, <<Lit("va")>> >>),
                Wb >> >>) >>

LeadingConnectorPattern ==
  << Alt(<< <<Lit("and")>>, <<Lit("then")>>, <<Lit("after")>>, <<Lit("finally")>>,
            <<Lit("next")>>, <<Lit("ultimately")>>, Phrase2("dar", "nahayat"),
            <<Lit("sepas")>>, <<Lit("badan")>>, Phrase3("bad", "az", "an"),
            <<Lit("va")>>, Phrase2("va", "sepas") >>),
     Wb, Rep(Whitespace \cup {FACOMMA}, 0, TRUE, "") >>

FragmentStrip == {SP, DASH, COLON, FACOMMA, COMMA}

\* line 289: the text before the trailing summary section
SummaryCut(user_text) == ReSplit(SummaryPattern, user_text)[1]

\* lines 314-318: drop everything up to and including a headline phrase
DropHeadline(cleaned) ==
  LET headline_match == ReSearch(HeadlinePattern, cleaned)
  IN IF headline_match.ok
     THEN Strip(SubSeq(cleaned, headline_match.end, Len(cleaned)),
                {SP, COLON, FACOMMA, COMMA})
     ELSE cleaned

\* lines 320-327: every connector becomes a sentence delimiter
\* the connectors lo..hi are replaced one after the other; an empty text stays
\* empty
RECURSIVE NormalizeFrom(_, _, _)
NormalizeFrom(normalized, lo, hi) ==
  IF lo = hi THEN ReSub(connectors[lo], <<DOT>>, normalized)
  ELSE LET mid == (lo + hi) \div 2
           half == NormalizeFrom(normalized, lo, mid)
       IN IF half = <<>> THEN <<>> ELSE NormalizeFrom(half, mid + 1, hi)

Normalize(cleaned) == NormalizeFrom(cleaned, 1, Len(connectors))

\* line 329: re.split(r"[.\n\r]|FASEMI", normalized)
PrimaryFragments(normalized) == ReSplit(<<Sym({DOT, NL, FASEMI})>>, normalized)

\* lines 345-350: re.sub of the leading connector remnant (anchored at ^)
\* a variant that removes a leading connector and the words after it
StripLeadingConnectorAndRest(sub) ==
  LET m == MatchAt(LeadingConnectorPattern, sub, 1, NoCaps)
  IN IF m.ok THEN <<>> ELSE sub

StripLeadingConnector(sub) ==
  LET m == MatchAt(LeadingConnectorPattern, sub, 1, NoCaps)
  IN IF m.ok THEN SubSeq(sub, m.end, Len(sub)) ELSE sub

\* lines 342-352: the sub-fragments of one fragment, each stripped and without
\* its leading connector, numbered in their order; an empty fragment or
\* sub-fragment gives the empty step
SubSteps(sub_fragments, k) ==
  { <<k, j, StripLeadingConnector(Strip(sub_fragments[j], FragmentStrip))>> :
      j \in 1..Len(sub_fragments) }

\* the non-empty steps among all, in the order of the fragments and of the
\* sub-fragments within a fragment
StepsInOrder(all) ==
  [i \in 1..Cardinality({e \in all : Len(e[3]) > 0}) |->
     (CHOOSE e \in all :
        /\ Len(e[3]) > 0
        /\ Cardinality({d \in all : /\ Len(d[3]) > 0
                                    /\ \/ d[1] < e[1]
                                       \/ (d[1] = e[1] /\ d[2] < e[2])}) = i - 1)[3]]

\* lines 336-352
FragmentSteps(primary_fragments) ==
  StepsInOrder(UNION { SubSteps(ReSplit(comma_split_pattern,
                                        Strip(primary_fragments[k], FragmentStrip)), k) :
                       k \in 1..Len(primary_fragments) })

extract_steps(user_text) ==
  LET cleaned == CollapseWs(Strip(SummaryCut(user_text), Whitespace))
  IN IF Len(cleaned) = 0 THEN <<>>
     ELSE FragmentSteps(PrimaryFragments(Normalize(DropHeadline(cleaned))))


(***************************************************************************)
(* _detect_branch                                                          *)
(***************************************************************************)
\* (?:bashad|ast) and (?:amma|vali): one symbol of two
Copula == Sym({"bashad", "ast"})
But == Sym({"amma", "vali"})
DarSuratiKe == <<Lit("dar"), Ws1, Lit("surati"), Ws1, Lit("ke")>>

\* lines 375-379: the inline form
InlinePattern ==
  << Lit("agar"), Ws1, Rep(AnyButNl, 1, FALSE, "cond"), Ws0, Opt(<<Copula>>), Ws0,
     Lit(COMMA), Ws0, Rep(AnyButNl, 1, FALSE, "yes"), Ws0,
     Opt(<<Alt(<< <<Lit(DOT)>>, <<Ws1>> >>)>>), Ws0,
     But, Ws1, Lit("agar"), Ws1, Rep(AllSyms \ {DOT}, 1, FALSE, "no_clause"),
     Alt(<< <<Lit(DOT)>>, <<Ws0, Eos>> >>) >>

\* lines 382-386: the "dar surati ke" form
AltPattern ==
  DarSuratiKe \o
  << Ws1, Rep(AnyButNl, 1, FALSE, "cond"), Ws0, Opt(<<Copula>>), Ws0,
     Sym({COMMA, FACOMMA}), Ws0, Rep(AnyButNl, 1, FALSE, "yes"), Ws0,
     Alt(<< <<Sym({DOT, SEMI, FASEMI})>>, <<Eos>> >>), Ws0,
     But, Ws1 >> \o DarSuratiKe \o
  << Ws1, Rep(AnyButNl, 1, FALSE, "no_cond"), Ws0, Opt(<<Copula>>), Ws0,
     Sym({COMMA, FACOMMA}), Ws0, Rep(AnyButNl, 1, FALSE, "no"),
     Alt(<< <<Sym({DOT, SEMI, FASEMI})>>, <<Ws0, Eos>> >>) >>

\* lines 390-394: the paragraph form (re.DOTALL)
ParagraphPattern ==
  << Lit("agar"), Ws1, Rep(AllSyms \ {COLON}, 1, TRUE, "cond"), Lit(COLON), Ws0,
     Rep(AllSyms, 1, FALSE, "yes"), Ws0, Opt(<<But>>), Ws0,
     Lit("agar"), Ws1, Rep(AllSyms \ {COLON}, 1, TRUE, "no_cond"), Lit(COLON), Ws0,
     Rep(AllSyms, 1, TRUE, "no") >>

\* lines 446-454
normalize_condition(text) ==
  LET t1 == CollapseWs(Strip(text, Whitespace))
      t2 == ReSub(<<Wb, Lit("bashad"), Wb>>, <<"ast">>, t1)
  IN IF Len(t2) > 0 /\ t2[Len(t2)] = FAQMARK THEN t2 ELSE t2 \o <<FAQMARK>>

\* lines 409-411, 418-420: the clause after the match, up to the next delimiter
AfterNoAction(remainder) ==
  IF Len(remainder) = 0 THEN <<>>
  ELSE LET m == ReSearch(<<Sym({DOT, SEMI})>>, remainder)
       IN Strip(IF m.ok THEN SubSeq(remainder, 1, m.start - 1) ELSE remainder, Whitespace)

\* lines 433-436: the role is put before an action that does not hold it
\* a variant that leaves the action as it is
PrefixRoleSkipped(action) == action

PrefixRole(action) ==
  IF Contains(action, <<"karshenas">>) THEN action ELSE <<"karshenas", SP>> \o action

NoBranch ==
  [found |-> FALSE, grammar |-> 0, question |-> <<>>, yes_action |-> <<>>,
   no_action |-> <<>>, after_no_action |-> <<>>]

\* lines 422-443
BranchResult(text, grammar, condition, yes_action, no_action, after_no_action) ==
  LET context_has_expert == Contains(text, <<"karshenas">>)
  IN [found |-> TRUE, grammar |-> grammar,
      question |-> normalize_condition(condition),
      yes_action |-> IF context_has_expert THEN PrefixRole(yes_action) ELSE yes_action,
      no_action |-> IF context_has_expert THEN PrefixRole(no_action) ELSE no_action,
      after_no_action |-> after_no_action]

\* lines 357-443; after_no_action = <<>> stands for the absent key
detect_branch(user_text) ==
  LET text == CollapseWs(Strip(user_text, Whitespace))
      norm == RemoveSym(ReplaceSym(ReplaceSym(text, FACOMMA, COMMA), FASEMI, SEMI), ZWNJ)
      m == ReSearch(InlinePattern, norm)
      m_alt == ReSearch(AltPattern, norm)
      m_par == ReSearch(ParagraphPattern, user_text)
  IN IF ~Contains(text, <<"agar">>) THEN NoBranch
     ELSE IF m.ok
     THEN BranchResult(text, 1,
            Strip(Group(norm, m, "cond"), Whitespace),
            Strip(Group(norm, m, "yes"), Whitespace),
            Strip(Group(norm, m, "no_clause"), Whitespace),
            AfterNoAction(Strip(SubSeq(norm, m.end, Len(norm)), Whitespace)))
     ELSE IF m_alt.ok
     THEN BranchResult(text, 2,
            Strip(Group(norm, m_alt, "cond"), Whitespace),
            Strip(Group(norm, m_alt, "yes"), Whitespace),
            Strip(Group(norm, m_alt, "no"), Whitespace),
            AfterNoAction(Strip(SubSeq(norm, m_alt.end, Len(norm)), Whitespace)))
     ELSE IF m_par.ok
     THEN BranchResult(text, 3,
            Strip(CollapseWs(Group(user_text, m_par, "cond")), Whitespace),
            Strip(CollapseWs(Group(user_text, m_par, "yes")), Whitespace),
            Strip(CollapseWs(Group(user_text, m_par, "no")), Whitespace),
            <<>>)
     ELSE NoBranch

(***************************************************************************)
(* _detect_multi_branch                                                    *)
(***************************************************************************)
\* lines 464-467
MultiPattern ==
  << Lit("agar"), Ws1, Rep(AnyButNl, 1, FALSE, "g1"),
     Opt(<<Ws1, Alt(<< <<Lit("bud")>>, <<Lit("bashad")>>, <<Lit("ast")>> >>)>>), Ws0,
     Opt(<<Sym({COLON, FACOMMA, COMMA})>>), Ws0, Rep(AnyButNl, 1, FALSE, "g2"),
     Look(<< <<Ws1, Opt(<<Lit("va"), Ws1>>), Lit("agar"), Wb>>, <<Eos>> >>) >>

\* line 475: re.sub(r"[.]+$", "", action), the class holding FASEMI too
RECURSIVE TrimTrailing(_)
TrimTrailing(action) ==
  IF Len(action) > 0 /\ action[Len(action)] \in {DOT, FASEMI}
  THEN TrimTrailing(SubSeq(action, 1, Len(action) - 1))
  ELSE action

\* a variant that accepts a single clause
TooFewClausesBelowOne(matches) == Len(matches) < 1

\* line 469: "if len(matches) < 2"
TooFewClauses(matches) == Len(matches) < 2

NoMultiBranch == [found |-> FALSE, branches |-> <<>>]

\* lines 457-477
detect_multi_branch(user_text) ==
  LET text == CollapseWs(user_text)
      matches == ReFindAll(MultiPattern, text)
  IN IF TooFewClauses(matches) THEN NoMultiBranch
     ELSE [found |-> TRUE,
           branches |-> [k \in 1..Len(matches) |->
                           TrimTrailing(Strip(Group(text, matches[k], "g2"), Whitespace))]]


(***************************************************************************)
(* _label_with_role, _wrap_label, _format_label_with_role                  *)
(***************************************************************************)
\* lines 492-503, in the order of the list
roles ==
  << <<"karshenas", SP, "arshad", SP, "poshtibani", SP, "setad">>,
     <<"karshenas", SP, "arshad">>,
     <<"karshenas", SP, "barresi", SP, "shekayat">>,
     <<"karshenas", SP, "poshtibani">>,
     <<"karshenas", SP, "shekayat", SP, "setad">>,
     <<"karshenas", SP, "setad">>,
     <<"karshenas", SP, "avvalie">>,
     <<"karshenas">>,
     <<"karmand">>,
     <<"karbar">> >>

\* lines 511-512
PrefacePattern ==
  << Lit("farayand"), Rep(AnyButNl, 1, FALSE, ""),
     Lit("be"), Lit(SP), Lit("sharh"), Lit(SP),
     Alt(<< <<Lit("zeyl")>>, <<Lit("zir")>> >>), Lit(SP),
     Opt(<<Alt(<< <<Lit("mibashad")>>, <<Lit("ast")>> >>)>>), Opt(<<Lit(COLON)>>) >>

\* lines 504-509: the index of the first role of the list the text holds, 0 if none
RECURSIVE FirstRole(_, _)
FirstRole(text, k) ==
  IF k > Len(roles) THEN 0
  ELSE IF Contains(text, roles[k]) THEN k ELSE FirstRole(text, k + 1)

\* lines 488-516
label_with_role(text) ==
  LET r == FirstRole(text, 1)
      t1 == IF r = 0 THEN text ELSE RemovePhrase(text, roles[r])
      t2 == ReSub(PrefacePattern, <<>>, t1)
      action == Strip(t2, {SP, COLON, FACOMMA, COMMA, DASH})
  IN IF r # 0 THEN roles[r] \o <<NL, DIVIDER, NL>> \o action ELSE action

\* text.split(): the maximal runs of symbols that are no whitespace
Split(t) ==
  LET starts == {i \in 1..Len(t) : t[i] \notin Whitespace /\ (i = 1 \/ t[i - 1] \in Whitespace)}
  IN [n \in 1..Cardinality(starts) |->
        LET i == CHOOSE i \in starts : Cardinality({j \in starts : j < i}) = n - 1
        IN SubSeq(t, i, i + RunLen(AllSyms \ Whitespace, t, i) - 1)]

\* len(word)
RECURSIVE StrLen(_)
StrLen(t) == IF Len(t) = 0 THEN 0 ELSE SymLen(Head(t)) + StrLen(Tail(t))


\* a variant that forgets the space between two words of a line
RECURSIVE WrapWordsNoSeparator(_, _, _, _, _, _)
WrapWordsNoSeparator(words, k, lines, current, current_len, max_chars) ==
  IF k > Len(words)
  THEN IF Len(current) > 0 THEN Append(lines, current) ELSE lines
  ELSE LET word == words[k]
       IN IF current_len + StrLen(word) > max_chars
          THEN WrapWordsNoSeparator(words, k + 1, Append(lines, current), <<word>>,
                                    StrLen(word), max_chars)
          ELSE WrapWordsNoSeparator(words, k + 1, lines, Append(current, word),
                                    current_len + StrLen(word), max_chars)

\* lines 531-541: the loop over words[k..]; a line is the list of its words
RECURSIVE WrapWords(_, _, _, _, _, _)
WrapWords(words, k, lines, current, current_len, max_chars) ==
  IF k > Len(words)
  THEN IF Len(current) > 0 THEN Append(lines, current) ELSE lines
  ELSE LET word == words[k]
           sep == IF Len(current) > 0 THEN 1 ELSE 0
       IN IF current_len + sep + StrLen(word) > max_chars
          THEN WrapWords(words, k + 1, Append(lines, current), <<word>>,
                         StrLen(word), max_chars)
          ELSE WrapWords(words, k + 1, lines, Append(current, word),
                         current_len + sep + StrLen(word), max_chars)

\* lines 527-544: the lines of the label, each the list of its words
WrapLines(text, max_chars) == WrapWords(Split(text), 1, <<>>, <<>>, 0, max_chars)

JoinLines(lines) == Join([i \in 1..Len(lines) |-> Join(lines[i], <<SP>>)], <<NL>>)

\* line 519: the default of max_chars
MaxChars == 24

\* lines 519-546
wrap_label(text, max_chars) ==
  IF Len(Split(text)) = 0 THEN text ELSE JoinLines(WrapLines(text, max_chars))

\* lines 480-481
format_label_with_role(step) == wrap_label(label_with_role(step), MaxChars)

\* label.count("\n") + 1
LabelLines(label) == Cardinality({i \in 1..Len(label) : label[i] = NL}) + 1


(***************************************************************************)
(* The state of one conversion                                             *)
(***************************************************************************)
VARIABLES
  pc,                    \* where the request, the conversion or the wrapping stands
  payload,               \* routes.py: the "text" field of the request body, or NoText
  response,              \* routes.py: the answer of /convert, or NoResponse
  calls,                 \* how often convert_text_to_bpmn was invoked
  user_text,             \* the argument of convert_text_to_bpmn
  steps, branch, multi_branch,
  tried,                 \* the detectors invoked so far, in order
  process_elements, node_types, node_columns, node_rows, label_lines_by_id,
  nodes_order, edges,
  pre_task_ids, branch_start_ids, branch_end_ids, branch_internal_edges, branch_levels,
  raised,                \* the exception that left convert_text_to_bpmn, "" if none
  result,                \* the document convert_text_to_bpmn returned, or NoDocument
  wrap_text, wrap_out    \* _wrap_label called on its own: argument and returned label

convVars ==
  << steps, branch, multi_branch, tried, process_elements, node_types, node_columns,
     node_rows, label_lines_by_id, nodes_order, edges, pre_task_ids, branch_start_ids,
     branch_end_ids, branch_internal_edges, branch_levels, raised, result >>

buildVars ==
  << process_elements, node_types, node_columns, node_rows, label_lines_by_id,
     nodes_order, edges, pre_task_ids, branch_start_ids, branch_end_ids,
     branch_internal_edges, branch_levels >>

vars == << pc, payload, response, calls, user_text, convVars, wrap_text, wrap_out >>

NoDocument == [process_elements |-> <<>>, shapes |-> <<>>, edges_di |-> <<>>]
NoResponse == [status |-> 0, kind |-> "none", error |-> <<>>, bpmn |-> NoDocument]
EmptyDict == <<>>

\* dict.get(k, default)
Get(d, k, default) == IF k \in DOMAIN d THEN d[k] ELSE default
\* d[k] = v
Put(d, k, v) == [x \in DOMAIN d \cup {k} |-> IF x = k THEN v ELSE d[x]]

\* lines 22-24, 63, 146: the fixed ids; an id "Name_n" is the pair <<"Name", n>>
start_id == <<"StartEvent", 1>>
end_id == <<"EndEvent", 1>>
split_id == <<"Gateway_Split", 1>>
join_id == <<"Gateway_Join", 1>>
yes_id == <<"Activity_Yes", 1>>
no_id == <<"Activity_No", 1>>
follow_id == <<"Activity_No", 2>>

Element(tag, id, name, src, dst) ==
  [tag |-> tag, id |-> id, name |-> name, sourceRef |-> src, targetRef |-> dst]
NoRef == <<"", 0>>
NodeElement(tag, id, name) == Element(tag, id, name, NoRef, NoRef)

\* line 17: "if not steps"
\* a variant that also rejects a text of one step
NoStepsOrOne(extracted) == Len(extracted) <= 1
NoSteps(extracted) == Len(extracted) = 0

\* the message of the ValueError of lines 18-20 and the fixed message of routes.py:23
NoStepsMessage == <<"emkan-e sakht-e nemudar vojud nadarad">>
NoTextMessage == <<"matni vared nashode ast">>


(***************************************************************************)
(* convert_text_to_bpmn, step by step                                      *)
(***************************************************************************)
outerVars == << payload, response, calls, user_text, wrap_text, wrap_out >>
detectVars == << steps, branch, multi_branch, tried >>

Range(f) == {f[i] : i \in DOMAIN f}

\* d[ks[i]] = vs[i] for i = 1, 2, ... (a later assignment wins)
PutSeq(d, ks, vs) ==
  [x \in DOMAIN d \cup Range(ks) |->
     IF x \in Range(ks)
     THEN vs[CHOOSE i \in DOMAIN ks : ks[i] = x /\ \A j \in DOMAIN ks : ks[j] = x => j <= i]
     ELSE d[x]]

\* user_text.split("agar", 1)[0]
TextBefore(t, s) ==
  LET at == {i \in 1..Len(t) : t[i] = s}
  IN IF at = {} THEN t ELSE SubSeq(t, 1, (CHOOSE i \in at : \A j \in at : i <= j) - 1)

\* lines 16-20
ExtractSteps ==
  /\ pc = "extract"
  /\ steps' = extract_steps(user_text)
  /\ IF NoSteps(steps')
     THEN raised' = "ValueError" /\ pc' = "raised"
     ELSE raised' = raised /\ pc' = "detect_branch"
  /\ UNCHANGED << outerVars, branch, multi_branch, tried, buildVars, result >>

\* line 28: _detect_multi_branch is called only when branch is None
\* a variant that tries the multi-branch detection whatever the first one found
AfterDetectBranchAlways(b) == "detect_multi"
AfterDetectBranch(b) == IF b.found THEN "build" ELSE "detect_multi"

\* line 27
DetectBranch ==
  /\ pc = "detect_branch"
  /\ branch' = detect_branch(user_text)
  /\ tried' = Append(tried, "single")
  /\ pc' = AfterDetectBranch(branch')
  /\ UNCHANGED << outerVars, steps, multi_branch, buildVars, raised, result >>

\* lines 28, 30: "if branch or multi_branch", branch being None here
AfterDetectMulti(mb) == IF mb.found THEN "build" ELSE "linear"

\* line 28
DetectMultiBranch ==
  /\ pc = "detect_multi"
  /\ multi_branch' = detect_multi_branch(user_text)
  /\ tried' = Append(tried, "multi")
  /\ pc' = AfterDetectMulti(multi_branch')
  /\ UNCHANGED << outerVars, steps, branch, buildVars, raised, result >>

\* line 52
PreTaskId(index) == <<"Activity", index + 1>>

\* lines 32-60: the start event and the tasks of the text before the first "agar"
BuildPreTasks ==
  /\ pc = "build"
  /\ LET pre_steps == extract_steps(TextBefore(user_text, "agar"))
         n == Len(pre_steps)
         ids == [i \in 1..n |-> PreTaskId(i - 1)]
         labels == [i \in 1..n |-> format_label_with_role(pre_steps[i])]
     IN /\ process_elements' =
             << NodeElement("startEvent", start_id, <<"shoru">>) >>
             \o [i \in 1..n |-> NodeElement("task", ids[i], labels[i])]
        /\ node_types' =
             PutSeq(Put(Put(EmptyDict, start_id, "start"), end_id, "end"),
                    ids, [i \in 1..n |-> "task"])
        /\ node_columns' = PutSeq(Put(EmptyDict, start_id, 0), ids, [i \in 1..n |-> i])
        /\ node_rows' = PutSeq(Put(EmptyDict, start_id, 0), ids, [i \in 1..n |-> 0])
        /\ label_lines_by_id' = PutSeq(EmptyDict, ids, [i \in 1..n |-> LabelLines(labels[i])])
        /\ nodes_order' = <<start_id>> \o ids
        /\ pre_task_ids' = ids
  /\ edges' = <<>>
  /\ pc' = "split"
  /\ UNCHANGED << outerVars, detectVars, branch_start_ids, branch_end_ids,
                  branch_internal_edges, branch_levels, raised, result >>

DecisionLabel == <<"tasmimgiri">>

\* lines 62-72: the decision gateway
BuildSplit ==
  /\ pc = "split"
  /\ LET question == IF branch.found /\ Len(branch.question) > 0
                     THEN branch.question ELSE DecisionLabel
     IN process_elements' =
          Append(process_elements, NodeElement("exclusiveGateway", split_id, question))
  /\ node_types' = Put(node_types, split_id, "gateway")
  /\ node_columns' =
       Put(node_columns, split_id,
           IF Len(pre_task_ids) > 0
           THEN Get(node_columns, pre_task_ids[Len(pre_task_ids)], 0) + 1
           ELSE 1)
  /\ node_rows' = Put(node_rows, split_id, 0)
  /\ nodes_order' = Append(nodes_order, split_id)
  /\ pc' = IF branch.found THEN "yes_no" ELSE "multi"
  /\ UNCHANGED << outerVars, detectVars, label_lines_by_id, edges, pre_task_ids,
                  branch_start_ids, branch_end_ids, branch_internal_edges, branch_levels,
                  raised, result >>

\* line 111: "if branch.get("after_no_action")"
HasFollowUp(b) == Len(b.after_no_action) > 0

\* lines 122-127: the follow-up replaces the end of the "no" arm and hangs on no_id
\* a variant that leaves the end of the "no" arm on no_id
FollowUpEndsOnNo == <<yes_id, no_id>>
FollowUpEnds == <<yes_id, follow_id>>
FollowUpEdges == << <<no_id, follow_id>> >>

\* lines 80-127: the yes and no arms and the optional follow-up of the no arm
BuildYesNoBranches ==
  /\ pc = "yes_no"
  /\ LET yes_label == format_label_with_role(branch.yes_action)
         no_label == format_label_with_role(branch.no_action)
         follow_label == format_label_with_role(branch.after_no_action)
         col == node_columns[split_id] + 1
         follow == HasFollowUp(branch)
         ids == IF follow THEN <<yes_id, no_id, follow_id>> ELSE <<yes_id, no_id>>
         labels == <<yes_label, no_label, follow_label>>
         cols == <<col, col, col + 1>>
         rows == <<0, 1, 1>>
         n == Len(ids)
     IN /\ process_elements' =
             process_elements \o [i \in 1..n |-> NodeElement("task", ids[i], labels[i])]
        /\ node_types' = PutSeq(node_types, ids, [i \in 1..n |-> "task"])
        /\ node_columns' = PutSeq(node_columns, ids, [i \in 1..n |-> cols[i]])
        /\ node_rows' = PutSeq(node_rows, ids, [i \in 1..n |-> rows[i]])
        /\ nodes_order' = nodes_order \o ids
        /\ label_lines_by_id' =
             PutSeq(label_lines_by_id, ids, [i \in 1..n |-> LabelLines(labels[i])])
        /\ branch_start_ids' = <<yes_id, no_id>>
        /\ branch_end_ids' = IF follow THEN FollowUpEnds ELSE <<yes_id, no_id>>
        /\ branch_levels' = PutSeq(EmptyDict, ids, [i \in 1..n |-> cols[i]])
        /\ branch_internal_edges' = IF follow THEN FollowUpEdges ELSE <<>>
  /\ pc' = "join"
  /\ UNCHANGED << outerVars, detectVars, edges, pre_task_ids, raised, result >>

\* line 132
BranchTaskId(idx) == <<"Activity_B", idx + 1>>

\* lines 128-143: one arm per detected action
BuildMultiBranches ==
  /\ pc = "multi"
  /\ LET n == Len(multi_branch.branches)
         ids == [i \in 1..n |-> BranchTaskId(i - 1)]
         labels == [i \in 1..n |-> format_label_with_role(multi_branch.branches[i])]
         col == node_columns[split_id] + 1
     IN /\ process_elements' =
             process_elements \o [i \in 1..n |-> NodeElement("task", ids[i], labels[i])]
        /\ node_types' = PutSeq(node_types, ids, [i \in 1..n |-> "task"])
        /\ node_columns' = PutSeq(node_columns, ids, [i \in 1..n |-> col])
        /\ node_rows' = PutSeq(node_rows, ids, [i \in 1..n |-> i - 1])
        /\ nodes_order' = nodes_order \o ids
        /\ label_lines_by_id' =
             PutSeq(label_lines_by_id, ids, [i \in 1..n |-> LabelLines(labels[i])])
        /\ branch_start_ids' = ids
        /\ branch_end_ids' = ids
        /\ branch_levels' = PutSeq(EmptyDict, ids, [i \in 1..n |-> col])
  /\ branch_internal_edges' = <<>>
  /\ pc' = "join"
  /\ UNCHANGED << outerVars, detectVars, edges, pre_task_ids, raised, result >>

\* a variant that takes the shallowest branch level
MinValue(d) == CHOOSE v \in Range(d) : \A w \in Range(d) : v <= w

\* max(d.values())
MaxValue(d) == CHOOSE v \in Range(d) : \A w \in Range(d) : w <= v

\* lines 145-162: the join gateway and the end event
BuildJoinAndEnd ==
  /\ pc = "join"
  /\ LET max_level == IF Len(branch_end_ids) > 0 THEN MaxValue(branch_levels)
                      ELSE Get(node_columns, split_id, 0)
     IN node_columns' = Put(Put(node_columns, join_id, max_level + 1), end_id, max_level + 2)
  /\ process_elements' =
       process_elements \o << NodeElement("exclusiveGateway", join_id, <<>>),
                              NodeElement("endEvent", end_id, <<"payan">>) >>
  /\ node_types' = Put(Put(node_types, join_id, "gateway"), end_id, "end")
  /\ node_rows' = Put(Put(node_rows, join_id, 0), end_id, 0)
  /\ nodes_order' = nodes_order \o <<join_id, end_id>>
  /\ pc' = "flows"
  /\ UNCHANGED << outerVars, detectVars, label_lines_by_id, edges, pre_task_ids,
                  branch_start_ids, branch_end_ids, branch_internal_edges, branch_levels,
                  raised, result >>

\* lines 167-172: the closure over edges and flow_index
\* a variant that never advances flow_index
add_flow_unnumbered(st, src, dst) ==
  [edges |-> Append(st.edges, << <<"Flow", st.flow_index>>, src, dst >>),
   flow_index |-> st.flow_index]

add_flow(st, src, dst) ==
  [edges |-> Append(st.edges, << <<"Flow", st.flow_index>>, src, dst >>),
   flow_index |-> st.flow_index + 1]

RECURSIVE AddFlowsFrom(_, _, _)
AddFlowsFrom(st, pairs, k) ==
  IF k > Len(pairs) THEN st
  ELSE AddFlowsFrom(add_flow(st, pairs[k][1], pairs[k][2]), pairs, k + 1)

\* lines 174-190: the pairs add_flow is called on, in order
FlowPairs ==
  LET n == Len(pre_task_ids)
  IN << <<start_id, IF n > 0 THEN pre_task_ids[1] ELSE split_id>> >>
     \o [i \in 1..(n - 1) |-> <<pre_task_ids[i], pre_task_ids[i + 1]>>]
     \o (IF n > 0 THEN << <<pre_task_ids[n], split_id>> >> ELSE <<>>)
     \o [i \in 1..Len(branch_start_ids) |-> <<split_id, branch_start_ids[i]>>]
     \o branch_internal_edges
     \o [i \in 1..Len(branch_end_ids) |-> <<branch_end_ids[i], join_id>>]
     \o << <<join_id, end_id>> >>

\* lines 164-190
AddFlows ==
  /\ pc = "flows"
  /\ edges' = AddFlowsFrom([edges |-> edges, flow_index |-> 1], FlowPairs, 1).edges
  /\ pc' = "serialize"
  /\ UNCHANGED << outerVars, detectVars, process_elements, node_types, node_columns,
                  node_rows, label_lines_by_id, nodes_order, pre_task_ids,
                  branch_start_ids, branch_end_ids, branch_internal_edges, branch_levels,
                  raised, result >>


(***************************************************************************)
(* _build_diagrams_complex, _build_diagrams and the returned document      *)
(***************************************************************************)
StartX == 100
BaseY == 150
RowSpacing == 160
SpacingX == 220
EventSize == 36
GatewaySize == 50
TaskWidth == 160
BaseHeight == 80
LineHeight == 18
FlowOffset == 18

Max2(a, b) == IF a >= b THEN a ELSE b

Shape(id, x, y, width, height) ==
  [id |-> id, x |-> x, y |-> y, width |-> width, height |-> height]

\* lines 572-577, 641-646: the box of a task
TaskShape(id, x, y, lines_by_id) ==
  LET lines == Max2(1, Get(lines_by_id, id, 1))
      extra == Max2(0, lines - 2)
  IN Shape(id, x - (TaskWidth \div 2 - FlowOffset), y, TaskWidth,
           BaseHeight + extra * LineHeight)

\* lines 629-648
ComplexShape(id, lines_by_id, columns, rows, types) ==
  LET x == StartX + SpacingX * Get(columns, id, 0)
      y == BaseY + RowSpacing * Get(rows, id, 0)
      node_type == Get(types, id, "task")
  IN IF node_type \in {"start", "end"} THEN Shape(id, x, y, EventSize, EventSize)
     ELSE IF node_type = "gateway" THEN Shape(id, x, y, GatewaySize, GatewaySize)
     ELSE TaskShape(id, x, y, lines_by_id)

\* lines 564-579; index counts from 0
LinearShape(id, index, lines_by_id) ==
  LET x == StartX + SpacingX * index
  IN IF id[1] \in {"StartEvent", "EndEvent"} THEN Shape(id, x, BaseY, EventSize, EventSize)
     ELSE TaskShape(id, x, BaseY, lines_by_id)

\* lines 591-603, 655-667: from the right edge of the source to the left edge of the target
Waypoints(fid, s, t) ==
  [id |-> fid, source_x |-> s.x + s.width, source_y |-> s.y + s.height \div 2,
   target_x |-> t.x, target_y |-> t.y + t.height \div 2]

ShapeOf(shapes, id) == shapes[CHOOSE i \in DOMAIN shapes : shapes[i].id = id]

FlowElements(es) ==
  [i \in 1..Len(es) |-> Element("sequenceFlow", es[i][1], <<>>, es[i][2], es[i][3])]

\* lines 192-227: bounds[src] and bounds[dst] raise KeyError for an unknown node
SerializeComplex ==
  /\ pc = "serialize"
  /\ LET shapes == [i \in 1..Len(nodes_order) |->
                      ComplexShape(nodes_order[i], label_lines_by_id, node_columns,
                                   node_rows, node_types)]
         known == \A i \in 1..Len(edges) :
                    edges[i][2] \in Range(nodes_order) /\ edges[i][3] \in Range(nodes_order)
     IN /\ process_elements' = process_elements \o FlowElements(edges)
        /\ IF known
           THEN /\ result' =
                     [process_elements |-> process_elements',
                      shapes |-> shapes,
                      edges_di |-> [i \in 1..Len(edges) |->
                                      Waypoints(edges[i][1], ShapeOf(shapes, edges[i][2]),
                                                ShapeOf(shapes, edges[i][3]))]]
                /\ raised' = raised
                /\ pc' = "returned"
           ELSE /\ result' = result
                /\ raised' = "KeyError"
                /\ pc' = "raised"
  /\ UNCHANGED << outerVars, detectVars, node_types, node_columns, node_rows,
                  label_lines_by_id, nodes_order, edges, pre_task_ids, branch_start_ids,
                  branch_end_ids, branch_internal_edges, branch_levels >>

\* line 233: range(len(steps) + 1)
\* a variant that leaves out the flow into the end event
LinearFlowCountShort(n) == n
LinearFlowCount(n) == n + 1

\* lines 228-281: all_nodes[index + 1] raises IndexError past the end of the list
BuildLinear ==
  /\ pc = "linear"
  /\ LET n == Len(steps)
         wrapped_steps == [i \in 1..n |-> format_label_with_role(steps[i])]
         task_ids == [i \in 1..n |-> PreTaskId(i - 1)]
         flow_ids == [i \in 1..LinearFlowCount(n) |-> <<"Flow", i>>]
         all_nodes == <<start_id>> \o task_ids \o <<end_id>>
         lines_by_id == PutSeq(EmptyDict, task_ids, [i \in 1..n |-> LabelLines(wrapped_steps[i])])
         shapes == [i \in 1..Len(all_nodes) |-> LinearShape(all_nodes[i], i - 1, lines_by_id)]
     IN IF Len(flow_ids) < Len(all_nodes)
        THEN /\ nodes_order' = all_nodes
             /\ label_lines_by_id' = lines_by_id
             /\ edges' = [i \in 1..Len(flow_ids) |-> <<flow_ids[i], all_nodes[i], all_nodes[i + 1]>>]
             /\ process_elements' =
                  << NodeElement("startEvent", start_id, <<"shoru">>) >>
                  \o [i \in 1..n |-> NodeElement("task", task_ids[i], wrapped_steps[i])]
                  \o << NodeElement("endEvent", end_id, <<"payan">>) >>
                  \o FlowElements(edges')
             /\ result' =
                  [process_elements |-> process_elements',
                   shapes |-> shapes,
                   edges_di |-> [i \in 1..Len(flow_ids) |->
                                   Waypoints(flow_ids[i], shapes[i], shapes[i + 1])]]
             /\ raised' = raised
             /\ pc' = "returned"
        ELSE /\ raised' = "IndexError"
             /\ pc' = "raised"
             /\ UNCHANGED << nodes_order, label_lines_by_id, edges, process_elements, result >>
  /\ UNCHANGED << outerVars, detectVars, node_types, node_columns, node_rows, pre_task_ids,
                  branch_start_ids, branch_end_ids, branch_internal_edges, branch_levels >>

(***************************************************************************)
(* routes.py: POST /convert                                                *)
(***************************************************************************)
Response(status, kind, error, bpmn) ==
  [status |-> status, kind |-> kind, error |-> error, bpmn |-> bpmn]

\* routes.py:17: (payload.get("text") or "").strip()
RequestText(p) == Strip(IF p.present THEN p.text ELSE <<>>, Whitespace)

\* routes.py:19: "if not user_text"
\* a variant that lets every text through
IsBlankNever(t) == FALSE
IsBlank(t) == Len(t) = 0

\* routes.py:16-30
RouteConvert ==
  /\ pc = "request"
  /\ IF IsBlank(RequestText(payload))
     THEN /\ response' = Response(400, "error", NoTextMessage, NoDocument)
          /\ pc' = "done"
          /\ UNCHANGED << calls, user_text >>
     ELSE /\ user_text' = RequestText(payload)
          /\ calls' = calls + 1
          /\ pc' = "extract"
          /\ UNCHANGED response
  /\ UNCHANGED << payload, convVars, wrap_text, wrap_out >>

\* routes.py:31-32: only ValueError is caught; anything else is the server's error
RouteCatch ==
  /\ pc = "raised"
  /\ response' = IF raised = "ValueError"
                 THEN Response(400, "error", NoStepsMessage, NoDocument)
                 ELSE Response(500, "error", <<>>, NoDocument)
  /\ pc' = "done"
  /\ UNCHANGED << payload, calls, user_text, convVars, wrap_text, wrap_out >>

\* routes.py:34
RouteReturn ==
  /\ pc = "returned"
  /\ response' = Response(200, "bpmn", <<>>, result)
  /\ pc' = "done"
  /\ UNCHANGED << payload, calls, user_text, convVars, wrap_text, wrap_out >>

(***************************************************************************)
(* _wrap_label called on its own                                           *)
(***************************************************************************)
WrapLabel ==
  /\ pc = "wrap"
  /\ wrap_out' = wrap_label(wrap_text, MaxChars)
  /\ pc' = "wrapped"
  /\ UNCHANGED << payload, response, calls, user_text, convVars, wrap_text >>


(***************************************************************************)
(* Inputs                                                                  *)
(***************************************************************************)
MaxShortLen == 3
MaxPre == 2
MaxBranches == 3
MaxWrapLen == 4

\* all sequences over S of length at most n
SeqsUpTo(S, n) == UNION {[1..k -> S] : k \in 0..n}

\* the concatenation of a sequence of texts
RECURSIVE Concat(_)
Concat(ts) == IF Len(ts) = 0 THEN <<>> ELSE Head(ts) \o Concat(Tail(ts))

ShortAlphabet == {"x", SP, NL, DOT, COMMA, "then", "after", "includes"}
ShortTexts == SeqsUpTo(ShortAlphabet, MaxShortLen)

\* sentences before the decision, without and with the role
FewPreTexts == {Concat(ss) : ss \in SeqsUpTo({<<"x", DOT, SP>>}, MaxPre)}
PreTexts == FewPreTexts \cup { <<"karshenas", SP, "y", DOT, SP>> }

Actions == { <<"x">>, <<"karshenas", SP, "x">>, <<"y", SP, "karshenas">> }

\* the comma, the end of the yes sentence and the condition of the no sentence
InlineShapes == { <<COMMA, <<SP>>, <<>>>>,
                  <<FACOMMA, <<DOT, SP>>, <<"y", SP, "bashad", COMMA, SP>>>>,
                  <<COMMA, <<DOT, SP>>, <<>>>> }

\* "agar x bashad, <yes>[.] amma agar [y bashad, ]<no>[. <follow-up>]"
InlineTexts ==
  { pre \o <<"agar", SP, "x", SP, "bashad", comma, SP>> \o yes \o mid
        \o <<"amma", SP, "agar", SP>> \o nocond \o no \o tail :
      pre \in PreTexts, yes \in Actions, no \in Actions,
      <<comma, mid, nocond>> \in InlineShapes,
      tail \in {<<>>, <<DOT>>, <<DOT, SP, "y", SP, "x", DOT>>} }

DSK == <<"dar", SP, "surati", SP, "ke">>

\* "dar surati ke x bashad, <yes>; amma dar surati ke y bashad, <no>.[ agar x.]"
AltTexts ==
  { pre \o DSK \o <<SP, "x", SP, "bashad", COMMA, SP>> \o yes \o <<FASEMI, SP, "amma", SP>>
        \o DSK \o <<SP, "y", SP, "ast", FACOMMA, SP>> \o no \o <<DOT>> \o tail :
      pre \in {<<>>, <<"agar", SP, "y", DOT, SP>>}, yes \in Actions, no \in Actions,
      tail \in {<<>>, <<SP, "y", DOT>>, <<SP, "agar", SP, "x", DOT>>} }

\* "agar x: <yes>\n agar y: <no>"
ParagraphTexts ==
  { pre \o <<"agar", SP, "x", COLON, SP>> \o yes \o <<NL>> \o but
        \o <<"agar", SP, "y", COLON, SP>> \o no :
      pre \in FewPreTexts, yes \in Actions, no \in Actions,
      but \in {<<>>, <<"vali", SP>>} }

\* "agar x bud y agar y bashad, karshenas x ..."
Clauses == { <<"agar", SP, "x", SP, "bud", SP, "y">>,
             <<"agar", SP, "y", "x", SP, "bashad", COMMA, SP, "karshenas", SP, "x", DOT>> }
MultiTexts ==
  { pre \o Join(cs, <<SP>>) :
      pre \in FewPreTexts,
      cs \in UNION {[1..k -> Clauses] : k \in 1..MaxBranches} }

Summary == <<"dar", SP, "kol", FACOMMA, SP, "farayand", SP, "shamel", SP, "karbar", SP, "ast">>
SummaryTexts == { Summary, <<SP>> \o Summary, <<"x", DOT, NL>> \o Summary,
                  <<"farayand", SP, "shamel", SP, "x", SP, "then", SP, "y">> }

\* one sentence whose words stand two spaces apart
SpacedTexts == { <<"x", SP, SP, "y">>, <<SP, "x", SP, SP, "y", SP>> }

Texts == ShortTexts \cup InlineTexts \cup AltTexts \cup ParagraphTexts \cup MultiTexts
         \cup SummaryTexts \cup SpacedTexts

\* request bodies: no "text" field, or one of the texts
Payloads ==
  { [present |-> FALSE, text |-> <<>>] }
  \cup { [present |-> TRUE, text |-> t] :
           t \in ShortTexts \cup SummaryTexts
                 \cup {u \in InlineTexts \cup MultiTexts : Len(u) <= 16} }

WrapAlphabet == {"x", "w12", "w13", "w24", "w25", SP, NL, LONGSP}
WrapTexts == SeqsUpTo(WrapAlphabet, MaxWrapLen)

(***************************************************************************)
(* Specifications                                                          *)
(***************************************************************************)
NoPayload == [present |-> FALSE, text |-> <<>>]

InitConversion ==
  /\ steps = <<>>
  /\ branch = NoBranch
  /\ multi_branch = NoMultiBranch
  /\ tried = <<>>
  /\ process_elements = <<>>
  /\ node_types = EmptyDict
  /\ node_columns = EmptyDict
  /\ node_rows = EmptyDict
  /\ label_lines_by_id = EmptyDict
  /\ nodes_order = <<>>
  /\ edges = <<>>
  /\ pre_task_ids = <<>>
  /\ branch_start_ids = <<>>
  /\ branch_end_ids = <<>>
  /\ branch_internal_edges = <<>>
  /\ branch_levels = EmptyDict
  /\ raised = ""
  /\ result = NoDocument

\* convert_text_to_bpmn is called on a text
Init ==
  /\ pc = "extract"
  /\ user_text \in Texts
  /\ calls = 1
  /\ payload = NoPayload
  /\ response = NoResponse
  /\ wrap_text = <<>>
  /\ wrap_out = <<>>
  /\ InitConversion

Convert ==
  \/ ExtractSteps
  \/ DetectBranch
  \/ DetectMultiBranch
  \/ BuildPreTasks
  \/ BuildSplit
  \/ BuildYesNoBranches
  \/ BuildMultiBranches
  \/ BuildJoinAndEnd
  \/ AddFlows
  \/ SerializeComplex
  \/ BuildLinear

Next == Convert

Spec == Init /\ [][Next]_vars

\* a request is posted to /convert
InitRoute ==
  /\ pc = "request"
  /\ payload \in Payloads
  /\ user_text = <<>>
  /\ calls = 0
  /\ response = NoResponse
  /\ wrap_text = <<>>
  /\ wrap_out = <<>>
  /\ InitConversion

NextRoute ==
  \/ RouteConvert
  \/ RouteCatch
  \/ RouteReturn
  \/ Convert

SpecRoute == InitRoute /\ [][NextRoute]_vars

\* _wrap_label is called on a text
InitWrap ==
  /\ pc = "wrap"
  /\ wrap_text \in WrapTexts
  /\ user_text = <<>>
  /\ calls = 0
  /\ payload = NoPayload
  /\ response = NoResponse
  /\ wrap_out = <<>>
  /\ InitConversion

NextWrap == WrapLabel

SpecWrap == InitWrap /\ [][NextWrap]_vars


(***************************************************************************)
(* The graph of a returned document                                        *)
(***************************************************************************)
IsNodeElement(e) == e.tag # "sequenceFlow"
IsFlowElement(e) == e.tag = "sequenceFlow"

\* the node elements and the sequence flows of the document, in document order
DocNodes(doc) == SelectSeq(doc.process_elements, IsNodeElement)
DocFlows(doc) == SelectSeq(doc.process_elements, IsFlowElement)
NodeIds(doc) == [i \in 1..Len(DocNodes(doc)) |-> DocNodes(doc)[i].id]
NodeIdSet(doc) == Range(NodeIds(doc))

OutFlows(doc, id) == {i \in 1..Len(DocFlows(doc)) : DocFlows(doc)[i].sourceRef = id}
InFlows(doc, id) == {i \in 1..Len(DocFlows(doc)) : DocFlows(doc)[i].targetRef = id}
Successors(doc, id) == {DocFlows(doc)[i].targetRef : i \in OutFlows(doc, id)}
Predecessors(doc, id) == {DocFlows(doc)[i].sourceRef : i \in InFlows(doc, id)}
OutDegree(doc, id) == Cardinality(OutFlows(doc, id))
InDegree(doc, id) == Cardinality(InFlows(doc, id))

\* the number of directed paths of at most fuel flows from a to b
RECURSIVE PathCount(_, _, _, _)
RECURSIVE PathCountVia(_, _, _, _, _)
PathCount(doc, a, b, fuel) ==
  IF a = b THEN 1
  ELSE IF fuel = 0 THEN 0
  ELSE PathCountVia(doc, a, b, fuel, 1)
PathCountVia(doc, a, b, fuel, k) ==
  IF k > Len(DocFlows(doc)) THEN 0
  ELSE (IF DocFlows(doc)[k].sourceRef = a
        THEN PathCount(doc, DocFlows(doc)[k].targetRef, b, fuel - 1) ELSE 0)
       + PathCountVia(doc, a, b, fuel, k + 1)

Reaches(doc, a, b) == PathCount(doc, a, b, Len(DocNodes(doc))) > 0

Terminal == pc \in {"raised", "returned"}
LinearMode == ~branch.found /\ ~multi_branch.found
TwoWayMode == branch.found
MultiMode == ~branch.found /\ multi_branch.found

\* the document holds an element and a shape for every node, one start and one end
\* event, and a sequence flow with its two waypoints for every edge
CompleteDocument(doc) ==
  /\ Len(DocNodes(doc)) >= 3
  /\ Cardinality({i \in 1..Len(DocNodes(doc)) : DocNodes(doc)[i].tag = "startEvent"}) = 1
  /\ Cardinality({i \in 1..Len(DocNodes(doc)) : DocNodes(doc)[i].tag = "endEvent"}) = 1
  /\ NodeIds(doc) = nodes_order
  /\ [i \in 1..Len(doc.shapes) |-> doc.shapes[i].id] = NodeIds(doc)
  /\ Len(DocFlows(doc)) = Len(edges)
  /\ Len(DocFlows(doc)) >= 2
  /\ [i \in 1..Len(doc.edges_di) |-> doc.edges_di[i].id]
       = [i \in 1..Len(DocFlows(doc)) |-> DocFlows(doc)[i].id]
  /\ \A i \in 1..Len(DocFlows(doc)) :
       {DocFlows(doc)[i].sourceRef, DocFlows(doc)[i].targetRef} \subseteq NodeIdSet(doc)

OnlyWhitespace(t) == \A i \in 1..Len(t) : t[i] \in Whitespace
OnlySummaryPhrase(t) == MatchAt(<<Ws0>> \o SummaryPattern \o <<Eos>>, t, 1, NoCaps).ok

(***************************************************************************)
(* Claims                                                                  *)
(***************************************************************************)

\* C1: convert_text_to_bpmn raises ValueError (NoStepsExtracted) exactly when
\* _extract_steps(text) is empty, in particular for whitespace-only text and for
\* text that is only a trailing-summary phrase; for every other text it returns a
\* complete document; it raises nothing else and returns nothing partial.
C1_RaisesExactlyWhenNoSteps ==
  /\ raised \in {"", "ValueError"}
  /\ (pc = "raised") <=> (raised = "ValueError")
  /\ Terminal =>
       /\ (raised = "ValueError") <=> (extract_steps(user_text) = <<>>)
       /\ (OnlyWhitespace(user_text) \/ OnlySummaryPhrase(user_text)) => raised = "ValueError"
  /\ pc = "returned" => CompleteDocument(result)
  /\ pc # "returned" => result = NoDocument

C1_Witness ==
  /\ pc = "raised"
  /\ raised = "ValueError"
  /\ ~OnlyWhitespace(user_text)
  /\ OnlySummaryPhrase(user_text)

\* C2: in linear mode the graph of n >= 1 steps has the n + 2 nodes StartEvent_1,
\* Activity_1..Activity_n, EndEvent_1 and n + 1 edges, edge i from the i-th to the
\* (i+1)-th node, hence exactly one path from start to end.
C2_LinearChain ==
  (pc = "returned" /\ LinearMode) =>
    LET n == Len(steps)
        nodes == NodeIds(result)
        flows == DocFlows(result)
    IN /\ n >= 1
       /\ nodes = <<start_id>> \o [i \in 1..n |-> <<"Activity", i>>] \o <<end_id>>
       /\ Len(nodes) = n + 2
       /\ Len(flows) = n + 1
       /\ \A i \in 1..Len(flows) :
            i + 1 <= Len(nodes) /\ flows[i].sourceRef = nodes[i]
                                /\ flows[i].targetRef = nodes[i + 1]
       /\ PathCount(result, start_id, end_id, n + 2) = 1

C2_Witness == pc = "returned" /\ LinearMode /\ Len(steps) = 3

\* C3: in two-way branch mode the split gateway has out-degree 2 (to Activity_Yes_1
\* and Activity_No_1), the join gateway has in-degree 2 (from Activity_Yes_1 and from
\* the last node of the no arm: Activity_No_2 when the follow-up exists, Activity_No_1
\* otherwise), the follow-up is chained only after the no arm, and every node is
\* reachable from the start and reaches the end.
C3_TwoWayBranch ==
  (pc = "returned" /\ TwoWayMode) =>
    LET last_no == IF Len(branch.after_no_action) > 0 THEN follow_id ELSE no_id
    IN /\ OutDegree(result, split_id) = 2
       /\ Successors(result, split_id) = {yes_id, no_id}
       /\ InDegree(result, join_id) = 2
       /\ Predecessors(result, join_id) = {yes_id, last_no}
       /\ (follow_id \in NodeIdSet(result)) <=> (Len(branch.after_no_action) > 0)
       /\ follow_id \in NodeIdSet(result) =>
            /\ Predecessors(result, follow_id) = {no_id}
            /\ InDegree(result, follow_id) = 1
            /\ Successors(result, no_id) = {follow_id}
       /\ Successors(result, yes_id) = {join_id}
       /\ OutDegree(result, yes_id) = 1
       /\ \A id \in NodeIdSet(result) :
            Reaches(result, start_id, id) /\ Reaches(result, id, end_id)

C3_Witness ==
  /\ pc = "returned"
  /\ TwoWayMode
  /\ Len(branch.after_no_action) > 0
  /\ Len(pre_task_ids) = 2

CountSym(t, s) == Cardinality({i \in 1..Len(t) : t[i] = s})

\* C4: _detect_multi_branch returns none unless it finds at least 2 conditional
\* clauses; when it returns N >= 2 actions the multi-branch graph has split
\* out-degree = join in-degree = N and one task Activity_B_i per action, each with
\* exactly one incoming edge, from the split, and one outgoing edge, to the join.
C4_MultiBranch ==
  /\ multi_branch.found =>
       /\ Len(multi_branch.branches) >= 2
       /\ Len(multi_branch.branches) = Len(ReFindAll(MultiPattern, CollapseWs(user_text)))
       /\ CountSym(user_text, "agar") >= Len(multi_branch.branches)
  /\ (Len(tried) = 2 /\ ~multi_branch.found) =>
       Len(ReFindAll(MultiPattern, CollapseWs(user_text))) < 2
  /\ (pc = "returned" /\ MultiMode) =>
       LET N == Len(multi_branch.branches)
       IN /\ OutDegree(result, split_id) = N
          /\ InDegree(result, join_id) = N
          /\ {id \in NodeIdSet(result) : id[1] = "Activity_B"}
               = {<<"Activity_B", i>> : i \in 1..N}
          /\ \A i \in 1..N :
               /\ InDegree(result, <<"Activity_B", i>>) = 1
               /\ Predecessors(result, <<"Activity_B", i>>) = {split_id}
               /\ OutDegree(result, <<"Activity_B", i>>) = 1
               /\ Successors(result, <<"Activity_B", i>>) = {join_id}

C4_Witness ==
  /\ pc = "returned"
  /\ MultiMode
  /\ Len(multi_branch.branches) = 3
  /\ Len(pre_task_ids) >= 1

\* C5: in every produced graph the node ids are pairwise distinct, the flow ids are
\* pairwise distinct and numbered Flow_1, Flow_2, ... in the order the edges are
\* created, and every edge's source and target is a node of the graph.
C5_IdsWellFormed ==
  pc = "returned" =>
    LET nodes == NodeIds(result)
        flows == DocFlows(result)
    IN /\ \A i, j \in 1..Len(nodes) : nodes[i] = nodes[j] => i = j
       /\ \A i, j \in 1..Len(flows) : flows[i].id = flows[j].id => i = j
       /\ \A i \in 1..Len(flows) : flows[i].id = <<"Flow", i>>
       /\ [i \in 1..Len(flows) |-> <<flows[i].id, flows[i].sourceRef, flows[i].targetRef>>]
            = edges
       /\ \A i \in 1..Len(flows) :
            flows[i].sourceRef \in NodeIdSet(result) /\ flows[i].targetRef \in NodeIdSet(result)

C5_Witness ==
  /\ pc = "returned"
  /\ TwoWayMode
  /\ Len(pre_task_ids) = 2
  /\ Len(DocFlows(result)) = 9



HasTerminator(t) == \E i \in 1..Len(t) : t[i] \in {DOT, NL, FASEMI}
HasConnector(t) == \E k \in 1..Len(connectors) : ReSearch(connectors[k], t).ok

\* the words of the connectors and of the leading connector remnants
ConnectorVocabulary ==
  {"then", "and", "afterwards", "after", "that", "finally", "at", "last", "ultimately",
   "subsequently", "next", "sepas", "badan", "bad", "az", "an", "dar", "nahayat", "va"}

\* the text that is left of the trailing summary section and of a headline phrase
\* holds a word that belongs to no connector
HasContentWord(t) ==
  LET rest == DropHeadline(CollapseWs(Strip(SummaryCut(t), Whitespace)))
  IN \E i \in 1..Len(rest) : IsWord(rest[i]) /\ rest[i] \notin ConnectorVocabulary

\* C6: for any non-empty input text that contains a sentence terminator or a
\* connector word and, outside the trailing summary section and after a headline
\* phrase, at least one word that belongs to no connector, _extract_steps returns a
\* list of length >= 1 and the pipeline does not raise NoStepsExtracted.
C6_StepsForTextWithContent ==
  (pc # "extract" /\ Len(user_text) > 0
     /\ (HasTerminator(user_text) \/ HasConnector(user_text))
     /\ HasContentWord(user_text)) =>
    /\ Len(steps) >= 1
    /\ Len(extract_steps(user_text)) >= 1
    /\ raised # "ValueError"

C6_Witness ==
  /\ ~HasTerminator(user_text)
  /\ HasConnector(user_text)
  /\ HasContentWord(user_text)
  /\ Len(steps) = 2
  /\ pc = "returned"

\* C6 as stated: any non-empty text with a terminator or a connector word yields at
\* least one step and no NoStepsExtracted.
C6_StepsForAnyTerminatedText ==
  (pc # "extract" /\ Len(user_text) > 0
     /\ (HasTerminator(user_text) \/ HasConnector(user_text))) =>
    /\ Len(steps) >= 1
    /\ raised # "ValueError"

\* label.split("\n")
OutLines(label) == ReSplit(<<Sym({NL})>>, label)

\* a line is within the width, or is one word that is itself longer than the width
LineFits(line) ==
  \/ StrLen(line) <= MaxChars
  \/ Split(line) = <<line>> /\ StrLen(line) > MaxChars

WrapContract ==
  /\ \A i \in 1..Len(OutLines(wrap_out)) : LineFits(OutLines(wrap_out)[i])
  /\ Concat([i \in 1..Len(OutLines(wrap_out)) |-> Split(OutLines(wrap_out)[i])])
       = Split(wrap_text)
  /\ Split(wrap_out) = Split(wrap_text)

\* C7: for every input text that contains at least one word, every line of the
\* label returned by _wrap_label (width 24) has at most 24 characters unless it is a
\* single word longer than 24 characters; the words of the lines, in order, are the
\* whitespace-separated words of the input, and no word is split across lines.
C7_WrapOfTextWithWords ==
  (pc = "wrapped" /\ Len(Split(wrap_text)) > 0) => WrapContract

C7_Witness ==
  /\ pc = "wrapped"
  /\ Len(Split(wrap_text)) = 2
  /\ Len(OutLines(wrap_out)) = 2
  /\ \E i \in 1..Len(OutLines(wrap_out)) : StrLen(OutLines(wrap_out)[i]) > MaxChars

\* C7 as stated: the same for every input text.
C7_WrapOfAnyText == pc = "wrapped" => WrapContract

GraphKind(doc) ==
  IF yes_id \in NodeIdSet(doc) THEN "two-way"
  ELSE IF split_id \in NodeIdSet(doc) THEN "multi-way"
  ELSE "linear"

\* C8: single-branch detection is tried first and multi-branch detection only if it
\* returned none; the two-way graph is built iff single-branch detection succeeded,
\* the multi-way graph iff it failed and multi-branch detection succeeded, and the
\* linear graph, not an error, when both returned none.
C8_DetectionOrder ==
  /\ tried \in {<<>>, <<"single">>, <<"single", "multi">>}
  /\ (pc \notin {"extract", "detect_branch", "raised"}) => Len(tried) >= 1
  /\ Len(tried) >= 1 => branch = detect_branch(user_text)
  /\ Len(tried) = 2 => ~branch.found /\ multi_branch = detect_multi_branch(user_text)
  /\ (Len(tried) = 1 /\ pc # "detect_multi") => branch.found
  /\ Len(tried) < 2 => multi_branch = NoMultiBranch
  /\ (Len(tried) >= 1 /\ pc \in {"raised", "returned"}) =>
       /\ pc = "returned"
       /\ (GraphKind(result) = "two-way") <=> branch.found
       /\ (GraphKind(result) = "multi-way") <=> (~branch.found /\ multi_branch.found)
       /\ (GraphKind(result) = "linear") <=> (~branch.found /\ ~multi_branch.found)

C8_Witness ==
  /\ pc = "returned"
  /\ tried = <<"single", "multi">>
  /\ multi_branch.found
  /\ GraphKind(result) = "multi-way"

BlankRequest(p) == ~p.present \/ OnlyWhitespace(p.text)

\* C9: the /convert handler never invokes the core when the text field is absent or
\* blank after trimming and answers the fixed error with status 400; for any other
\* text it invokes the core exactly once and answers {bpmn} with status 200 if the
\* core returns, {error: message} with status 400 if it reports NoStepsExtracted.
C9_RouteContract ==
  /\ calls \in {0, 1}
  /\ BlankRequest(payload) => calls = 0
  /\ (~BlankRequest(payload) /\ pc # "request") => calls = 1
  /\ pc = "done" =>
       IF BlankRequest(payload)
       THEN response = Response(400, "error", NoTextMessage, NoDocument)
       ELSE \/ /\ raised = ""
               /\ result # NoDocument
               /\ response = Response(200, "bpmn", <<>>, result)
            \/ /\ raised = "ValueError"
               /\ response = Response(400, "error", NoStepsMessage, NoDocument)
  /\ pc # "done" => response = NoResponse

C9_Witness ==
  /\ pc = "done"
  /\ payload.present
  /\ ~BlankRequest(payload)
  /\ calls = 1
  /\ response.status = 400
  /\ response.error = NoStepsMessage

StartsWith(t, prefix) == Len(t) >= Len(prefix) /\ SubSeq(t, 1, Len(prefix)) = prefix

RoleToken == <<"karshenas">>

\* the text the actions are cut from
SourceText(t) == ReplaceSym(CollapseWs(t), FACOMMA, COMMA)

\* the action holds the role: it stands in the text as it is, or it is the role
\* token put before a piece of the text that does not hold the role
RolePropagated(action, t) ==
  /\ Contains(action, RoleToken)
  /\ \/ Contains(SourceText(t), action)
     \/ /\ StartsWith(action, RoleToken \o <<SP>>)
        /\ Contains(SourceText(t), SubSeq(action, 3, Len(action)))
        /\ ~Contains(SubSeq(action, 3, Len(action)), RoleToken)
  /\ ~Contains(SourceText(t), action) => StartsWith(action, RoleToken)
  /\ PrefixRole(action) = action

\* C10: whenever _detect_branch returns a Branch for a text in which the role token
\* appears, yes_action and no_action both contain the role token: the token is put
\* before an action that does not already contain it (that action then starts with
\* it), an action that contains it is left as it is, and applying the propagation
\* again changes nothing.
C10_RolePropagation ==
  (Len(tried) >= 1 /\ branch.found /\ Contains(user_text, RoleToken)) =>
    /\ RolePropagated(branch.yes_action, user_text)
    /\ RolePropagated(branch.no_action, user_text)

C10_Witness ==
  /\ Len(tried) >= 1
  /\ branch.found
  /\ CountSym(user_text, "karshenas") = 1
  /\ StartsWith(branch.yes_action, RoleToken)
  /\ StartsWith(branch.no_action, RoleToken)

\* C10 as stated: both actions start with the role token.
C10_BothActionsStartWithRole ==
  (Len(tried) >= 1 /\ branch.found /\ Contains(user_text, RoleToken)) =>
    /\ StartsWith(branch.yes_action, RoleToken)
    /\ StartsWith(branch.no_action, RoleToken)


\* the text the first two grammars are searched in
NormText(t) ==
  RemoveSym(ReplaceSym(ReplaceSym(CollapseWs(Strip(t, Whitespace)), FACOMMA, COMMA),
                       FASEMI, SEMI), ZWNJ)

\* the first of the three grammars that matches the text, 0 when none does
FirstGrammar(t) ==
  IF ReSearch(InlinePattern, NormText(t)).ok THEN 1
  ELSE IF ReSearch(AltPattern, NormText(t)).ok THEN 2
  ELSE IF ReSearch(ParagraphPattern, t).ok THEN 3
  ELSE 0

\* C11: _detect_branch tries the inline form, the "dar surati ke" form and the
\* paragraph form in this order and returns the Branch of the first that matches; it
\* returns none only when none of the three matches the text.
C11_GrammarCascade ==
  Len(tried) >= 1 =>
    /\ branch.found <=> (FirstGrammar(user_text) # 0)
    /\ branch.found => branch.grammar = FirstGrammar(user_text)


\* the column of a node: its index in the linear layout, its entry of node_columns
\* in the branch layouts
ColumnOf(id) ==
  IF LinearMode THEN (CHOOSE i \in 1..Len(nodes_order) : nodes_order[i] = id) - 1
  ELSE node_columns[id]

IsTaskNode(doc, id) ==
  \E i \in 1..Len(DocNodes(doc)) : DocNodes(doc)[i].id = id /\ DocNodes(doc)[i].tag = "task"

\* the left edge of the box drawn for a node of the given column
ColumnX(doc, id, column) ==
  StartX + SpacingX * column
    - (IF IsTaskNode(doc, id) THEN TaskWidth \div 2 - FlowOffset ELSE 0)

MaxColumn(ids) == CHOOSE c \in {ColumnOf(id) : id \in ids} : \A id \in ids : ColumnOf(id) <= c

\* C12: in every produced graph the column of the target of each edge is at least
\* (here: greater than) the column of its source, the start is at column 0, the split
\* gateway one column after its last predecessor, the first node of every arm at split
\* column + 1, the join gateway at (maximum column of the arm end nodes) + 1 and the
\* end node at join column + 1; the boxes of the document stand at these columns.
C12_ColumnsForward ==
  pc = "returned" =>
    LET flows == DocFlows(result)
        last_pred == IF Len(pre_task_ids) > 0 THEN pre_task_ids[Len(pre_task_ids)]
                     ELSE start_id
    IN /\ \A i \in 1..Len(flows) :
            /\ ColumnOf(flows[i].targetRef) >= ColumnOf(flows[i].sourceRef)
            /\ ColumnOf(flows[i].targetRef) > ColumnOf(flows[i].sourceRef)
       /\ ColumnOf(start_id) = 0
       /\ \A i \in 1..Len(result.shapes) :
            result.shapes[i].x
              = ColumnX(result, result.shapes[i].id, ColumnOf(result.shapes[i].id))
       /\ ~LinearMode =>
            /\ Predecessors(result, split_id) = {last_pred}
            /\ ColumnOf(split_id) = ColumnOf(last_pred) + 1
            /\ Successors(result, split_id) # {}
            /\ \A id \in Successors(result, split_id) :
                 ColumnOf(id) = ColumnOf(split_id) + 1
            /\ Predecessors(result, join_id) = Range(branch_end_ids)
            /\ ColumnOf(join_id) = MaxColumn(Predecessors(result, join_id)) + 1
            /\ ColumnOf(end_id) = ColumnOf(join_id) + 1
            /\ Predecessors(result, end_id) = {join_id}

C12_Witness ==
  /\ pc = "returned"
  /\ TwoWayMode
  /\ Len(pre_task_ids) >= 1
  /\ follow_id \in NodeIdSet(result)
  /\ ColumnOf(follow_id) = ColumnOf(yes_id) + 1
  /\ ColumnOf(join_id) = ColumnOf(follow_id) + 1


Trimmed(t) == Strip(t, Whitespace)

NoTrailingPunctuation(t) ==
  Len(Trimmed(t)) = 0 \/ Trimmed(t)[Len(Trimmed(t))] \notin Punctuation

\* neither end of the trimmed text is a character the code strips from a fragment
NoOuterPunctuation(t) ==
  /\ NoTrailingPunctuation(t)
  /\ Strip(Trimmed(t), FragmentStrip) = Trimmed(t)

\* no connector, and none of the words the code removes at the start of a fragment
NoConnectorWord(t) == ~HasConnector(t) /\ ~ReSearch(LeadingConnectorPattern, t).ok

\* C13: for any input text that holds at least one word, no sentence delimiter, no
\* connector word or phrase (the leading connector remnants included), no headline
\* phrase, no trailing-summary phrase and no punctuation at either end, _extract_steps
\* returns exactly one step: the input text without its leading and trailing
\* whitespace and with every inner run of whitespace replaced by one space.
C13_SingleStepOfPlainText ==
  (pc # "extract" /\ Len(Trimmed(user_text)) > 0
     /\ ~HasTerminator(user_text) /\ NoConnectorWord(user_text)
     /\ ~ReSearch(HeadlinePattern, user_text).ok
     /\ ~ReSearch(SummaryPattern, user_text).ok
     /\ NoOuterPunctuation(user_text)) =>
    /\ steps = << ReSub(<<Ws1>>, <<SP>>, Trimmed(user_text)) >>
    /\ raised # "ValueError"

C13_Witness ==
  /\ pc = "returned"
  /\ NoConnectorWord(user_text)
  /\ ~HasTerminator(user_text)
  /\ NoOuterPunctuation(user_text)
  /\ steps = << <<"x", SP, "y">> >>
  /\ Trimmed(user_text) = <<"x", SP, SP, "y">>

\* C13 as stated: without delimiter, connector and trailing punctuation the only
\* step is the trimmed text.
C13_SingleStepIsTrimmedText ==
  (pc # "extract" /\ ~HasTerminator(user_text) /\ ~HasConnector(user_text)
     /\ NoTrailingPunctuation(user_text)) =>
    steps = << Trimmed(user_text) >>


NonEmptyLines(label) ==
  Cardinality({i \in 1..Len(OutLines(label)) : Len(Split(OutLines(label)[i])) > 0})

\* C14: for every input text with at least one word, every line of the label
\* returned by _wrap_label holds at least one word, also when the first word is
\* longer than the width, so the number of lines that sizes the task box
\* (label.count("\n") + 1) equals the number of non-empty lines of the label.
C14_NoEmptyLine ==
  (pc = "wrapped" /\ Len(Split(wrap_text)) > 0) =>
    /\ \A i \in 1..Len(OutLines(wrap_out)) : Len(Split(OutLines(wrap_out)[i])) > 0
    /\ LabelLines(wrap_out) = NonEmptyLines(wrap_out)

====
